---------------------------- MODULE Spec2Model ----------------------------
(***************************************************************************)
(* Model of utils.py of IAGM_feature_selection: the Metropolis-Hastings    *)
(* samplers, draw_indicator, draw_posterior_z and integral_approx.         *)
(*                                                                         *)
(* Numbers.  Two encodings of the program's floats are used.               *)
(*  - Where the code takes np.log of a density and exponentiates a sum of  *)
(*    logs (the MH samplers) a float is kept by its sign class and the     *)
(*    natural logarithm of its magnitude in 1/1000 nat ("LogFloat"); the   *)
(*    log-likelihoods themselves are extended reals in 1/1000 ("ExtReal")  *)
(*    with IEEE's -inf, +inf and nan.                                      *)
(*  - Where the code adds and multiplies densities (draw_posterior_z,      *)
(*    integral_approx, draw_indicator) a float is a fixed-point integer in *)
(*    1/1000, products rounded down.                                       *)
(* Random draws are inputs chosen with \E from small sets.                 *)
(***************************************************************************)
EXTENDS Integers, Sequences, FiniteSets, TLC

VARIABLES
  \* ---- Metropolis-Hastings samplers (utils.py 117-287)
  kind,     \* which sampler runs: "mu", "sl", "sr", "da", "db"
  arg,      \* the call's arguments other than the starting value
  x,        \* the current value of the chain
  vec,      \* the trace list
  i,        \* the loop counter of `for i in range(n)`
  prop,     \* the value norm.rvs(x, 0.75, 1)[0] returned in the last iteration
  cand,     \* local `candidate` as last assigned (after any reflection)
  alpha,    \* local `alpha` as last assigned (LogFloat)
  u,        \* local `u` as last assigned (LogFloat)
  last,     \* what the last iteration did: "none", "skip", "accept", "reject"
  nu,       \* number of np.random.uniform draws made so far by the call
  pc,       \* "loop" while iterating, "done" after the return
  ret       \* the returned value

VARIABLES
  \* ---- draw_indicator (utils.py 374-389)
  pvec,     \* the M x N weight matrix, pvec[row][column]
  res,      \* the result vector (0-based row indices)
  j,        \* number of columns done: the loop `for j in range(pvec.shape[1])`
  R,        \* the uniform draw of the last column
  fb,       \* whether the last column took the `except` branch
  ipc       \* "loop" while iterating, "done" after the return

indvars == <<pvec, res, j, R, fb, ipc>>

VARIABLES
  \* ---- draw_posterior_z (utils.py 392-409)
  zin,          \* the arguments X, pi, rho, mu, s_l, s_r, mu_irr, s_l_irr, s_r_irr
  Z_ij_posteriors, \* the N x M array of cluster weights
  posterior_z,  \* the N x M x D result
  zi, zj, zk,   \* the loop counters i, j, k (0-based)
  zpc           \* "weights" (first loop nest), "entries" (second), "done"

zvars == <<zin, Z_ij_posteriors, posterior_z, zi, zj, zk, zpc>>

VARIABLES
  \* ---- integral_approx (utils.py 290-316)
  gin,      \* the arguments: X and size
  temp,     \* the running sum, one entry per observation
  gi,       \* the loop counter i
  draws,    \* the prior draws made so far, one D-vector of parameters each
  gpc,      \* "loop" while iterating, "done" after the return
  gret      \* the returned vector

gvars == <<gin, temp, gi, draws, gpc, gret>>

allvars == <<kind, arg, x, vec, i, prop, cand, alpha, u, last, nu, pc, ret,
             pvec, res, j, R, fb, ipc,
             zin, Z_ij_posteriors, posterior_z, zi, zj, zk, zpc,
             gin, temp, gi, draws, gpc, gret>>

mhvars == <<kind, arg, x, vec, i, prop, cand, alpha, u, last, nu, pc, ret>>

\* The samplers run `n = 750` iterations (utils.py 135, 168, 203, 238, 273).
\* The trace list is part of the state, so the model runs the same loop with
\* a scaled-down budget; every formula below is stated relative to n.
n == 3

--------------------------------------------------------------------------
(* LogFloat: a float by class and ln|value| in 1/1000.                    *)

NaN == [t |-> "nan", l |-> 0]
PInf == [t |-> "pinf", l |-> 0]
NInf == [t |-> "ninf", l |-> 0]
Zero == [t |-> "zero", l |-> 0]
Pos(l) == [t |-> "pos", l |-> l]
Neg(l) == [t |-> "neg", l |-> l]
FOne == Pos(0)

\* rank of the class on the number line (nan excluded)
ClassRank(a) ==
  CASE a.t = "ninf" -> 0
    [] a.t = "neg"  -> 1
    [] a.t = "zero" -> 2
    [] a.t = "pos"  -> 3
    [] a.t = "pinf" -> 4
    [] OTHER        -> 5

\* a < b on floats: False whenever either side is nan
FLt(a, b) ==
  IF a.t = "nan" \/ b.t = "nan" THEN FALSE
  ELSE IF ClassRank(a) # ClassRank(b) THEN ClassRank(a) < ClassRank(b)
  ELSE IF a.t = "pos" THEN a.l < b.l
  ELSE IF a.t = "neg" THEN a.l > b.l
  ELSE FALSE

FSign(a) == IF a.t \in {"neg", "ninf"} THEN -1 ELSE IF a.t = "zero" THEN 0 ELSE 1

\* a * b on floats
FMul(a, b) ==
  IF a.t = "nan" \/ b.t = "nan" THEN NaN
  ELSE IF a.t \in {"pinf", "ninf"} \/ b.t \in {"pinf", "ninf"}
       THEN IF a.t = "zero" \/ b.t = "zero" THEN NaN
            ELSE IF FSign(a) * FSign(b) > 0 THEN PInf ELSE NInf
  ELSE IF a.t = "zero" \/ b.t = "zero" THEN Zero
  ELSE IF FSign(a) * FSign(b) > 0 THEN Pos(a.l + b.l) ELSE Neg(a.l + b.l)

\* Python's min([a, b]): b only when b < a, so a nan second element loses
PyMin(a, b) == IF FLt(b, a) THEN b ELSE a

--------------------------------------------------------------------------
(* ExtReal: a log-likelihood, an extended real in 1/1000.                  *)

Fin(v) == [t |-> "fin", v |-> v]
ENaN == [t |-> "nan", v |-> 0]
EPInf == [t |-> "pinf", v |-> 0]
ENInf == [t |-> "ninf", v |-> 0]

ENeg(a) ==
  CASE a.t = "fin"  -> Fin(0 - a.v)
    [] a.t = "pinf" -> ENInf
    [] a.t = "ninf" -> EPInf
    [] OTHER        -> ENaN

EAdd(a, b) ==
  IF a.t = "nan" \/ b.t = "nan" THEN ENaN
  ELSE IF a.t = "fin" /\ b.t = "fin" THEN Fin(a.v + b.v)
  ELSE IF a.t = "fin" THEN b
  ELSE IF b.t = "fin" THEN a
  ELSE IF a.t = b.t THEN a
  ELSE ENaN

ESub(a, b) == EAdd(a, ENeg(b))

\* c * a for an integer c (an indicator z[i,j,k], a count M, a difference)
EScale(c, a) ==
  IF a.t = "nan" THEN ENaN
  ELSE IF a.t = "fin" THEN Fin(c * a.v)
  ELSE IF c = 0 THEN ENaN
  ELSE IF c > 0 THEN a
  ELSE ENeg(a)

\* np.exp: overflows to inf above ln(DBL_MAX), underflows to 0 below
\* ln(smallest subnormal)
np_exp(a) ==
  CASE a.t = "nan"  -> NaN
    [] a.t = "pinf" -> PInf
    [] a.t = "ninf" -> Zero
    [] OTHER        -> IF a.v > 709782 THEN PInf
                       ELSE IF a.v < -745133 THEN Zero
                       ELSE Pos(a.v)

\* np.log
np_log(a) ==
  CASE a.t = "pos"  -> Fin(a.l)
    [] a.t = "zero" -> ENInf
    [] a.t = "pinf" -> EPInf
    [] OTHER        -> ENaN

\* ln(m) in 1/1000 for the small integers the model needs
LnTab == <<0, 693, 1099, 1386, 1609, 1792, 1946, 2079, 2197, 2303>>

\* scipy.special.gammaln at a positive integer: ln((a-1)!)
RECURSIVE gammaln(_)
gammaln(a) == IF a <= 2 THEN 0 ELSE LnTab[a - 1] + gammaln(a - 1)


--------------------------------------------------------------------------
(* The AGD density and the acceptance ratios (utils.py 93-103, 117-266).   *)

\* ln(sqrt(2/pi)) in 1/1000
LnSqrt2OverPi == -226

\* np.power(s, -0.5) in halves, for the precisions the model draws (1 and 4)
InvSqrtHalves(s) == IF s = 1 THEN 2 ELSE 1

\* AGD_pdf as a LogFloat.  A zero precision makes np.power(0, -0.5) = inf
\* and the coefficient sqrt(2/pi)/inf = 0.
AGD_pdf(x_k, mu, s_l, s_r) ==
  LET s == IF x_k < mu THEN s_l ELSE s_r
      coef == IF s_l = 0 \/ s_r = 0 THEN Zero
              ELSE Pos(LnSqrt2OverPi
                       - (LnTab[InvSqrtHalves(s_l) + InvSqrtHalves(s_r)] - LnTab[2]))
  IN FMul(coef, np_exp(Fin(0 - 500 * s * (x_k - mu) * (x_k - mu))))

\* a prior draw (a nonzero integer) as a LogFloat, and the ratio of two
FromDraw(d) == IF d > 0 THEN Pos(LnTab[d]) ELSE Neg(LnTab[0 - d])
DrawRatio(d1, d2) ==
  IF (d1 > 0) = (d2 > 0) THEN Pos(FromDraw(d1).l - FromDraw(d2).l)
  ELSE Neg(FromDraw(d1).l - FromDraw(d2).l)

\* the loop of compare_mu_jk over the first m observations
RECURSIVE ll_mu(_, _, _, _, _, _, _)
ll_mu(m, mu_jk, previous_mu_jk, s_ljk, s_rjk, z, X) ==
  IF m = 0 THEN Fin(0)
  ELSE EAdd(ll_mu(m - 1, mu_jk, previous_mu_jk, s_ljk, s_rjk, z, X),
            EScale(z[m], ESub(np_log(AGD_pdf(X[m], mu_jk, s_ljk, s_rjk)),
                              np_log(AGD_pdf(X[m], previous_mu_jk, s_ljk, s_rjk)))))

\* d1, d2 are the two draw_normal(lam[k], 1/r[k]) values
compare_mu_jk(mu_jk, previous_mu_jk, s_ljk, s_rjk, z, X, d1, d2) ==
  FMul(np_exp(ll_mu(Len(X), mu_jk, previous_mu_jk, s_ljk, s_rjk, z, X)),
       DrawRatio(d1, d2))

RECURSIVE ll_s_ljk(_, _, _, _, _, _, _)
ll_s_ljk(m, s_ljk, previous_s_ljk, mu_jk, s_rjk, z, X) ==
  IF m = 0 THEN Fin(0)
  ELSE EAdd(ll_s_ljk(m - 1, s_ljk, previous_s_ljk, mu_jk, s_rjk, z, X),
            EScale(z[m], ESub(np_log(AGD_pdf(X[m], mu_jk, s_ljk, s_rjk)),
                              np_log(AGD_pdf(X[m], mu_jk, previous_s_ljk, s_rjk)))))

\* d1, d2 are the two draw_gamma values (positive)
compare_s_ljk(s_ljk, previous_s_ljk, mu_jk, s_rjk, z, X, d1, d2) ==
  FMul(np_exp(ll_s_ljk(Len(X), s_ljk, previous_s_ljk, mu_jk, s_rjk, z, X)),
       DrawRatio(d1, d2))

RECURSIVE ll_s_rjk(_, _, _, _, _, _, _)
ll_s_rjk(m, s_rjk, previous_s_rjk, mu_jk, s_ljk, z, X) ==
  IF m = 0 THEN Fin(0)
  ELSE EAdd(ll_s_rjk(m - 1, s_rjk, previous_s_rjk, mu_jk, s_ljk, z, X),
            EScale(z[m], ESub(np_log(AGD_pdf(X[m], mu_jk, s_ljk, s_rjk)),
                              np_log(AGD_pdf(X[m], mu_jk, s_ljk, previous_s_rjk)))))

compare_s_rjk(s_rjk, previous_s_rjk, mu_jk, s_ljk, z, X, d1, d2) ==
  FMul(np_exp(ll_s_rjk(Len(X), s_rjk, previous_s_rjk, mu_jk, s_ljk, z, X)),
       DrawRatio(d1, d2))

\* np.log of a relevance weight given in quarters (rho = q/4)
LogQuarter(q) == IF q = 0 THEN ENInf ELSE Fin(LnTab[q] - LnTab[4])

\* the loop `for j in range(M)` of compare_delta_a over the first m components
RECURSIVE ll_delta_a(_, _, _, _, _, _)
ll_delta_a(m, delta_a, previous_delta_a, delta_b, rho, M) ==
  IF m = 0
  THEN Fin(M * (gammaln(delta_a + delta_b) - gammaln(delta_a)
                - gammaln(previous_delta_a + delta_b) + gammaln(previous_delta_a)))
  ELSE EAdd(ll_delta_a(m - 1, delta_a, previous_delta_a, delta_b, rho, M),
            EScale(delta_a - previous_delta_a, LogQuarter(rho[m])))

compare_delta_a(delta_a, previous_delta_a, delta_b, rho, M, d1, d2) ==
  FMul(np_exp(ll_delta_a(M, delta_a, previous_delta_a, delta_b, rho, M)),
       DrawRatio(d1, d2))

RECURSIVE ll_delta_b(_, _, _, _, _, _)
ll_delta_b(m, delta_b, previous_delta_b, delta_a, rho, M) ==
  IF m = 0
  THEN Fin(M * (gammaln(delta_a + delta_b) - gammaln(delta_b)
                - gammaln(delta_a + previous_delta_b) + gammaln(previous_delta_b)))
  ELSE EAdd(ll_delta_b(m - 1, delta_b, previous_delta_b, delta_a, rho, M),
            EScale(delta_b - previous_delta_b, LogQuarter(4 - rho[m])))

compare_delta_b(delta_b, previous_delta_b, delta_a, rho, M, d1, d2) ==
  FMul(np_exp(ll_delta_b(M, delta_b, previous_delta_b, delta_a, rho, M)),
       DrawRatio(d1, d2))

--------------------------------------------------------------------------
(* The five samplers (utils.py 131-147, 164-182, 199-217, 234-252,         *)
(* 269-287).                                                               *)

\* Inputs.  norm.rvs has full support, so a proposal is any value of the set.
CandMu == {-1, 0, 1}
CandS == {-4, -1, 0, 1, 4}
CandDelta == {-1, 0, 1, 2, 3}
NormalDraws == {-1, 1, 2}
GammaDraws == {1, 2}
\* np.random.uniform(0, 1): 0 and 1/2
Uniforms == {Zero, Pos(-693)}

Kinds == {"mu", "sl", "sr", "da", "db"}

\* column k of X with the indicators z[:, j, k]
DataSets ==
  { [X |-> <<0>>, z |-> <<1>>],
    [X |-> <<1>>, z |-> <<0>>],
    [X |-> <<0, 40>>, z |-> <<1, 1>>] }

\* column k of rho, in quarters
RhoCols == { <<2>>, <<1, 3>> }

\* the arguments of a call, by sampler; the sampled parameter's own field is
\* the starting value
MHArg(m, sl, sr, d, a, b, r) ==
  [mu_jk |-> m, s_ljk |-> sl, s_rjk |-> sr, X |-> d.X, z |-> d.z,
   delta_a |-> a, delta_b |-> b, rho |-> r, M |-> Len(r)]

NoData == [X |-> <<>>, z |-> <<>>]

Args(kd) ==
  CASE kd = "mu" -> { MHArg(m, 1, 4, d, 0, 0, <<>>) : m \in {0, 1}, d \in DataSets }
    [] kd = "sl" -> { MHArg(1, sl, 1, d, 0, 0, <<>>) : sl \in {1, 4}, d \in DataSets }
    [] kd = "sr" -> { MHArg(0, 1, sr, d, 0, 0, <<>>) : sr \in {1, 4}, d \in DataSets }
    [] kd = "da" -> { MHArg(0, 0, 0, NoData, a, 1, r) : a \in {1, 2}, r \in RhoCols }
    [] OTHER     -> { MHArg(0, 0, 0, NoData, 2, b, r) : b \in {1, 2}, r \in RhoCols }

\* the parameter the sampler starts from: `x = mu_jk`, `x = s_ljk`, ...
Start(kd, a) ==
  CASE kd = "mu" -> a.mu_jk
    [] kd = "sl" -> a.s_ljk
    [] kd = "sr" -> a.s_rjk
    [] kd = "da" -> a.delta_a
    [] OTHER     -> a.delta_b

Unset == [t |-> "unset", l |-> 0]

MHInit ==
  /\ kind \in Kinds
  /\ arg \in Args(kind)
  /\ x = Start(kind, arg)
  /\ vec = <<Start(kind, arg)>>
  /\ i = 0
  /\ prop = 0
  /\ cand = 0
  /\ alpha = Unset
  /\ u = Unset
  /\ last = "none"
  /\ nu = 0
  /\ pc = "loop"
  /\ ret = 0

\* `alpha = min([1., compare_...(candidate, x, ...)])`
acceptance_probability(ratio) == PyMin(FOne, ratio)

\* `if u < alpha:`
Accepts(uu, a) == FLt(uu, a)

\* (mutant) the test written `candidate < 0`
StrictlyNegative(c) == c < 0

\* `if candidate <= 0:` of the s_ljk, s_rjk, delta_a and delta_b samplers
NonPositive(c) == c <= 0

\* `candidate = np.abs(candidate)`
np_abs(c) == IF c < 0 THEN 0 - c ELSE c

\* (mutant) the tail of an iteration with `vec.append(x)` outside the `if`
AcceptReject_appendAlways(p, c, ratio, uu) ==
  /\ prop' = p
  /\ cand' = c
  /\ alpha' = acceptance_probability(ratio)
  /\ u' = uu
  /\ nu' = nu + 1
  /\ IF Accepts(uu, acceptance_probability(ratio))
     THEN /\ x' = c
          /\ vec' = Append(vec, c)
          /\ last' = "accept"
     ELSE /\ x' = x
          /\ vec' = Append(vec, x)
          /\ last' = "reject"
  /\ i' = i + 1
  /\ UNCHANGED <<kind, arg, pc, ret>>

\* the tail of an iteration: alpha, u, and the accept/reject step
AcceptReject(p, c, ratio, uu) ==
  /\ prop' = p
  /\ cand' = c
  /\ alpha' = acceptance_probability(ratio)
  /\ u' = uu
  /\ nu' = nu + 1
  /\ IF Accepts(uu, acceptance_probability(ratio))
     THEN /\ x' = c
          /\ vec' = Append(vec, c)
          /\ last' = "accept"
     ELSE /\ UNCHANGED <<x, vec>>
          /\ last' = "reject"
  /\ i' = i + 1
  /\ UNCHANGED <<kind, arg, pc, ret>>

\* (mutant) a skipped proposal redrawn without using up an iteration
Continue_redraw(p) ==
  /\ prop' = p
  /\ cand' = p
  /\ last' = "skip"
  /\ UNCHANGED <<kind, arg, x, vec, i, alpha, u, nu, pc, ret>>

\* `continue`: the for loop moves on to its next value of i
Continue(p) ==
  /\ prop' = p
  /\ cand' = p
  /\ last' = "skip"
  /\ i' = i + 1
  /\ UNCHANGED <<kind, arg, x, vec, alpha, u, nu, pc, ret>>

\* `for i in range(n)` has a value left
InLoop(kd) == pc = "loop" /\ kind = kd /\ i < n

MuIter ==
  /\ InLoop("mu")
  /\ \E p \in CandMu, d1 \in NormalDraws, d2 \in NormalDraws, uu \in Uniforms :
       AcceptReject(p, p, compare_mu_jk(p, x, arg.s_ljk, arg.s_rjk, arg.z, arg.X, d1, d2), uu)
  /\ UNCHANGED <<indvars, zvars, gvars>>

SlIter ==
  /\ InLoop("sl")
  /\ \E p \in CandS, d1 \in GammaDraws, d2 \in GammaDraws, uu \in Uniforms :
       LET c == IF NonPositive(p) THEN np_abs(p) ELSE p
       IN AcceptReject(p, c, compare_s_ljk(c, x, arg.mu_jk, arg.s_rjk, arg.z, arg.X, d1, d2), uu)
  /\ UNCHANGED <<indvars, zvars, gvars>>

SrIter ==
  /\ InLoop("sr")
  /\ \E p \in CandS :
       IF NonPositive(p) THEN Continue(p)
       ELSE \E d1 \in GammaDraws, d2 \in GammaDraws, uu \in Uniforms :
              AcceptReject(p, p, compare_s_rjk(p, x, arg.mu_jk, arg.s_ljk, arg.z, arg.X, d1, d2), uu)
  /\ UNCHANGED <<indvars, zvars, gvars>>

DaIter ==
  /\ InLoop("da")
  /\ \E p \in CandDelta :
       IF NonPositive(p) THEN Continue(p)
       ELSE \E d1 \in GammaDraws, d2 \in GammaDraws, uu \in Uniforms :
              AcceptReject(p, p, compare_delta_a(p, x, arg.delta_b, arg.rho, arg.M, d1, d2), uu)
  /\ UNCHANGED <<indvars, zvars, gvars>>

DbIter ==
  /\ InLoop("db")
  /\ \E p \in CandDelta :
       IF NonPositive(p) THEN Continue(p)
       ELSE \E d1 \in GammaDraws, d2 \in GammaDraws, uu \in Uniforms :
              AcceptReject(p, p, compare_delta_b(p, x, arg.delta_a, arg.rho, arg.M, d1, d2), uu)
  /\ UNCHANGED <<indvars, zvars, gvars>>

\* `return vec[-1]`
MHReturn ==
  /\ pc = "loop"
  /\ i >= n
  /\ ret' = vec[Len(vec)]
  /\ pc' = "done"
  /\ UNCHANGED <<kind, arg, x, vec, i, prop, cand, alpha, u, last, nu>>
  /\ UNCHANGED <<indvars, zvars, gvars>>

MHNext == MuIter \/ SlIter \/ SrIter \/ DaIter \/ DbIter \/ MHReturn


--------------------------------------------------------------------------
(* Claims about the samplers.                                              *)

\* a float in [0, 1]
InUnitInterval(a) == a.t \in {"zero", "pos"} /\ ~FLt(FOne, a)

\* C2: in every sampler, once an iteration has computed alpha and drawn u,
\* the acceptance probability alpha lies in [0, 1].
C2_AlphaInUnitInterval == nu > 0 => InUnitInterval(alpha)

\* C3: in the s_ljk, s_rjk, delta_a and delta_b samplers, started from a
\* value > 0, the current value x is > 0 after every iteration and the
\* returned value is > 0.
C3_PositiveResult ==
  kind \in {"sl", "sr", "da", "db"} => (x > 0 /\ (pc = "done" => ret > 0))

\* C4: the trace is the starting value followed by exactly the accepted
\* candidates in order (an iteration appends its candidate when it drew u and
\* u < alpha, and otherwise leaves the trace alone), its last element is the
\* current value x, and the value returned is that last element.
C4_TraceOfAccepted ==
  /\ [](/\ vec[1] = Start(kind, arg)
        /\ vec[Len(vec)] = x
        /\ (pc = "done" => ret = x))
  /\ [][i' = i + 1 =>
          IF nu' = nu + 1 /\ FLt(u', alpha')
          THEN vec' = Append(vec, cand')
          ELSE vec' = vec]_allvars

C4_Witness ==
  pc = "done" /\ Len(vec) = 2 /\ last = "reject" /\ ret # prop /\ ret # vec[1]

\* C5: every call ends after exactly n proposals: each iteration, accepted,
\* rejected or skipped, advances the loop counter by one (a skipped proposal
\* is not redrawn), the counter never passes n, and the return happens at
\* i = n and only there.
C5_ExactBudget ==
  /\ [](i <= n /\ (pc = "done" => i = n))
  /\ [][/\ (pc = "loop" /\ pc' = "loop") => i' = i + 1
        /\ (pc = "loop" /\ pc' = "done") => (i = n /\ i' = n)]_allvars

C5_Witness == pc = "done" /\ i = n /\ last = "skip" /\ Len(vec) = 2

\* C9: in the s_rjk, delta_a and delta_b samplers an iteration whose proposal
\* is <= 0 leaves x, the trace, alpha and u unchanged and draws no uniform;
\* in the s_ljk sampler such a proposal is replaced by its absolute value,
\* which goes through the accept/reject step (a uniform is drawn, and the
\* trace either stays or gains the absolute value).
C9_SkipOrReflect ==
  [][(i' = i + 1 /\ prop' <= 0) =>
       /\ kind \in {"sr", "da", "db"} =>
            /\ x' = x
            /\ vec' = vec
            /\ alpha' = alpha
            /\ u' = u
            /\ nu' = nu
       /\ kind = "sl" =>
            /\ cand' = 0 - prop'
            /\ nu' = nu + 1
            /\ vec' = IF FLt(u', alpha') THEN Append(vec, 0 - prop') ELSE vec
            /\ x' = vec'[Len(vec')]]_allvars

C9_Witness == kind = "sr" /\ last = "skip" /\ prop <= 0 /\ Len(vec) = 2 /\ nu = 1

--------------------------------------------------------------------------
(* draw_indicator (utils.py 374-389).                                      *)

\* largest numbers of rows (components) and columns (observations) tried
MaxM == 2
MaxN == 2

\* the weights tried
Weights == {0, 2}

\* np.cumsum(pvec[:, col]) : the first m entries of column col summed, for
\* m = 1..M
RECURSIVE ColSum(_, _, _)
ColSum(p, col, m) == IF m = 0 THEN 0 ELSE ColSum(p, col, m - 1) + p[m][col]

np_cumsum(p, col) == [m \in 1..Len(p) |-> ColSum(p, col, m)]

\* np.random.uniform(low, high): the values of [low, high), and low alone
\* when the interval is empty
uniform(low, high) == IF high > low THEN low..(high - 1) ELSE {low}

\* (mutant) the truth table written `(c - R) >= 0`
truth_table_ge(c, r) == [m \in 1..Len(c) |-> c[m] - r >= 0]

\* `r = (c - R) > 0`
truth_table(c, r) == [m \in 1..Len(c) |-> c[m] - r > 0]

\* `y.__next__()` of the generator of the indices i with r[i] true: the first
\* such index (0-based); the set is empty when the generator is exhausted
first_true(r) ==
  { m - 1 : m \in { q \in 1..Len(r) : r[q] /\ \A q2 \in 1..(q - 1) : ~r[q2] } }

\* (mutant) randint with its upper end included
randint_inclusive(low, high) == low..high

\* np.random.randint(low, high): low..high-1
randint(low, high) == low..(high - 1)

IndInit ==
  /\ \E M \in 1..MaxM, N \in 1..MaxN :
       /\ pvec \in [1..M -> [1..N -> Weights]]
       /\ res = [c \in 1..N |-> 0]
  /\ j = 0
  /\ R = 0
  /\ fb = FALSE
  /\ ipc = "loop"

\* one pass of the loop body, for column j (0-based)
IndColumn ==
  /\ ipc = "loop"
  /\ j < Len(res)
  /\ LET c == np_cumsum(pvec, j + 1)
     IN \E rr \in uniform(0, c[Len(c)]) :
          /\ R' = rr
          /\ IF first_true(truth_table(c, rr)) # {}
             THEN /\ \E y \in first_true(truth_table(c, rr)) :
                       res' = [res EXCEPT ![j + 1] = y]
                  /\ fb' = FALSE
             ELSE /\ \E y \in randint(0, Len(pvec)) :
                       res' = [res EXCEPT ![j + 1] = y]
                  /\ fb' = TRUE
  /\ j' = j + 1
  /\ UNCHANGED <<pvec, ipc>>
  /\ UNCHANGED <<mhvars, zvars, gvars>>

\* `return res`
IndReturn ==
  /\ ipc = "loop"
  /\ j >= Len(res)
  /\ ipc' = "done"
  /\ UNCHANGED <<pvec, res, j, R, fb>>
  /\ UNCHANGED <<mhvars, zvars, gvars>>

IndNext == IndColumn \/ IndReturn

\* C6: for the column just done, the result is the smallest row index whose
\* cumulative weight strictly exceeds the drawn R; when there is none the
\* fallback is taken and the result is some index of 0..M-1; every column
\* done holds a valid component index in [0, M).
C6_FirstExceedingOrFallback ==
  /\ \A col \in 1..j : res[col] \in 0..(Len(pvec) - 1)
  /\ j >= 1 =>
       LET Exceeding == { m \in 1..Len(pvec) : ColSum(pvec, j, m) > R }
       IN IF Exceeding # {}
          THEN /\ ~fb
               /\ res[j] + 1 \in Exceeding
               /\ \A m \in Exceeding : res[j] + 1 <= m
          ELSE fb

C6_Witness ==
  /\ ipc = "done" /\ j = 2 /\ Len(pvec) = 2
  /\ fb /\ res[2] = 1 /\ pvec[1][2] = 0 /\ pvec[2][2] = 0
  /\ res[1] = 1 /\ pvec[1][1] = 2 /\ pvec[2][1] = 2

\* C10: for a column of non-negative weights with a positive total, the
\* fallback is not taken and the row returned has a positive weight in that
\* column.
C10_PositiveWeightChosen ==
  (j >= 1 /\ ColSum(pvec, j, Len(pvec)) > 0 /\ \A m \in 1..Len(pvec) : pvec[m][j] >= 0)
    => (~fb /\ pvec[res[j] + 1][j] > 0)

C10_Witness ==
  /\ j >= 1 /\ Len(pvec) = 2 /\ pvec[1][j] = 0 /\ pvec[2][j] = 2
  /\ R = 0 /\ res[j] = 1 /\ ~fb

--------------------------------------------------------------------------
(* Fixed-point densities (1/1000) and draw_posterior_z (utils.py 71-114,   *)
(* 392-409).                                                               *)

\* np.sqrt(2/np.pi) in 1/1000
Sqrt2OverPi == 798

\* np.exp(-m/2) in 1/1000, by repeated multiplication with exp(-1/2) = 0.607;
\* it has underflowed to 0 well before m = 40
RECURSIVE exp_neg_half(_)
exp_neg_half(m) ==
  IF m = 0 THEN 1000
  ELSE IF m > 40 THEN 0
  ELSE (exp_neg_half(m - 1) * 607) \div 1000

\* sqrt(2/pi) / (s_l^-0.5 + s_r^-0.5), the powers taken in halves
agd_coef(s_l, s_r) == (Sqrt2OverPi * 2) \div (InvSqrtHalves(s_l) + InvSqrtHalves(s_r))

\* AGD_pdf in fixed point, for precisions > 0
AGD_pdf_fx(x_k, mu, s_l, s_r) ==
  IF x_k < mu
  THEN (agd_coef(s_l, s_r) * exp_neg_half(s_l * (x_k - mu) * (x_k - mu))) \div 1000
  ELSE (agd_coef(s_l, s_r) * exp_neg_half(s_r * (x_k - mu) * (x_k - mu))) \div 1000

\* rho * v and (1 - rho) * v for a relevance weight in quarters
TimesRho(rq, v) == (rq * v) \div 4
TimesOneMinusRho(rq, v) == ((4 - rq) * v) \div 4

\* the loop of AGD_pdf_feature_selction over the first m features (jj, and
\* the feature index, are 1-based here)
RECURSIVE fs_product(_, _, _, _)
fs_product(m, xrow, jj, a) ==
  IF m = 0 THEN 1000
  ELSE (fs_product(m - 1, xrow, jj, a)
        * (TimesRho(a.rho[jj][m],
                    AGD_pdf_fx(xrow[m], a.mu[jj][m], a.s_l[jj][m], a.s_r[jj][m]))
           + TimesOneMinusRho(a.rho[jj][m],
                    AGD_pdf_fx(xrow[m], a.mu_irr[jj][m], a.s_l_irr[jj][m], a.s_r_irr[jj][m]))))
       \div 1000

AGD_pdf_feature_selction(xrow, jj, D, a) == fs_product(D, xrow, jj, a)

\* what one feature of one component can be
F0 == [rho |-> 0, mu |-> 0, s_l |-> 1, s_r |-> 1, mu_irr |-> 1, s_l_irr |-> 1, s_r_irr |-> 4]
F1 == [rho |-> 2, mu |-> 1, s_l |-> 4, s_r |-> 1, mu_irr |-> 0, s_l_irr |-> 1, s_r_irr |-> 1]
F2 == [rho |-> 4, mu |-> 0, s_l |-> 1, s_r |-> 4, mu_irr |-> 1, s_l_irr |-> 4, s_r_irr |-> 1]

\* the components tried: a mixing weight pi[j] (1/1000) and D = 2 features
Components ==
  { [pi |-> 250, f |-> <<F0, F1>>],
    [pi |-> 750, f |-> <<F1, F2>>],
    [pi |-> 500, f |-> <<F2, F0>>],
    [pi |-> 0,   f |-> <<F1, F1>>] }

\* the datasets tried (N x D)
ZData == { << <<0, 1>> >>, << <<0, 0>>, <<1, 2>> >> }

\* the arguments of draw_posterior_z for the components cs and the data X
ZArgs(X, cs) ==
  [X |-> X, N |-> Len(X), M |-> Len(cs), D |-> Len(X[1]),
   pi |-> [m \in 1..Len(cs) |-> cs[m].pi],
   rho |-> [m \in 1..Len(cs) |-> [k \in 1..Len(cs[m].f) |-> cs[m].f[k].rho]],
   mu |-> [m \in 1..Len(cs) |-> [k \in 1..Len(cs[m].f) |-> cs[m].f[k].mu]],
   s_l |-> [m \in 1..Len(cs) |-> [k \in 1..Len(cs[m].f) |-> cs[m].f[k].s_l]],
   s_r |-> [m \in 1..Len(cs) |-> [k \in 1..Len(cs[m].f) |-> cs[m].f[k].s_r]],
   mu_irr |-> [m \in 1..Len(cs) |-> [k \in 1..Len(cs[m].f) |-> cs[m].f[k].mu_irr]],
   s_l_irr |-> [m \in 1..Len(cs) |-> [k \in 1..Len(cs[m].f) |-> cs[m].f[k].s_l_irr]],
   s_r_irr |-> [m \in 1..Len(cs) |-> [k \in 1..Len(cs[m].f) |-> cs[m].f[k].s_r_irr]]]

ZInit ==
  /\ \E X \in ZData, M \in 1..MaxM : \E cs \in [1..M -> Components] :
       /\ zin = ZArgs(X, cs)
       /\ Z_ij_posteriors = [o \in 1..Len(X) |-> [m \in 1..M |-> 0]]
       /\ posterior_z = [o \in 1..Len(X) |-> [m \in 1..M |-> [k \in 1..Len(X[1]) |-> 0]]]
  /\ zi = 0
  /\ zj = 0
  /\ zk = 0
  /\ zpc = "weights"

\* `Z_ij_posteriors[i] = pi[j] * AGD_pdf_feature_selction(X[i], j, ...)`:
\* an assignment to the index [i] of a 2-d array sets the whole row i
assign_weight(Z, ii, jj, v) == [Z EXCEPT ![ii] = [m \in 1..Len(Z[ii]) |-> v]]

\* one pass of the body of the first loop nest, at (zi, zj)
ZWeight ==
  /\ zpc = "weights"
  /\ Z_ij_posteriors' =
       assign_weight(Z_ij_posteriors, zi + 1, zj + 1,
                     (zin.pi[zj + 1]
                      * AGD_pdf_feature_selction(zin.X[zi + 1], zj + 1, zin.D, zin))
                     \div 1000)
  /\ IF zj + 1 < zin.M THEN zj' = zj + 1 /\ UNCHANGED <<zi, zpc>>
     ELSE IF zi + 1 < zin.N THEN zi' = zi + 1 /\ zj' = 0 /\ UNCHANGED zpc
     ELSE zi' = 0 /\ zj' = 0 /\ zpc' = "entries"
  /\ UNCHANGED <<zin, posterior_z, zk>>
  /\ UNCHANGED <<mhvars, indvars, gvars>>

\* (mutant) the entry weighted by 1 - rho[j, k], as in the commented-out
\* irr_result
z_entry_irr(a, Z, ii, jj, kk) ==
  (TimesOneMinusRho(a.rho[jj][kk],
            AGD_pdf_fx(a.X[ii][kk], a.mu[jj][kk], a.s_l[jj][kk], a.s_r[jj][kk]))
   * Z[ii][jj]) \div 1000

\* `rho[j, k] * AGD_pdf(X[i, k], mu[j, k], s_l[j, k], s_r[j, k]) * Z_ij_posteriors[i, j]`
z_entry(a, Z, ii, jj, kk) ==
  (TimesRho(a.rho[jj][kk],
            AGD_pdf_fx(a.X[ii][kk], a.mu[jj][kk], a.s_l[jj][kk], a.s_r[jj][kk]))
   * Z[ii][jj]) \div 1000

\* one pass of the body of the second loop nest, at (zi, zj, zk); the
\* function returns when the nest is exhausted
ZEntry ==
  /\ zpc = "entries"
  /\ posterior_z' = [posterior_z EXCEPT ![zi + 1][zj + 1][zk + 1] =
                       z_entry(zin, Z_ij_posteriors, zi + 1, zj + 1, zk + 1)]
  /\ IF zk + 1 < zin.D THEN zk' = zk + 1 /\ UNCHANGED <<zi, zj, zpc>>
     ELSE IF zj + 1 < zin.M THEN zj' = zj + 1 /\ zk' = 0 /\ UNCHANGED <<zi, zpc>>
     ELSE IF zi + 1 < zin.N THEN zi' = zi + 1 /\ zj' = 0 /\ zk' = 0 /\ UNCHANGED zpc
     ELSE zpc' = "done" /\ UNCHANGED <<zi, zj, zk>>
  /\ UNCHANGED <<zin, Z_ij_posteriors>>
  /\ UNCHANGED <<mhvars, indvars, gvars>>

ZNext == ZWeight \/ ZEntry

\* the cluster weight of observation ii and component jj
cluster_weight(a, ii, jj) ==
  (a.pi[jj] * AGD_pdf_feature_selction(a.X[ii], jj, a.D, a)) \div 1000

\* C1: every returned entry [i, j, k] is rho[j,k] * AGD_pdf(X[i,k]; mu[j,k],
\* s_l[j,k], s_r[j,k]) * cluster_weight[i, j], the weight being that of the
\* same component j.
C1_OwnComponentWeight ==
  zpc = "done" =>
    \A ii \in 1..zin.N, jj \in 1..zin.M, kk \in 1..zin.D :
      posterior_z[ii][jj][kk] =
        (TimesRho(zin.rho[jj][kk],
                  AGD_pdf_fx(zin.X[ii][kk], zin.mu[jj][kk], zin.s_l[jj][kk], zin.s_r[jj][kk]))
         * cluster_weight(zin, ii, jj)) \div 1000

\* C7: the returned tensor has shape (N, M, D), all its entries are >= 0, and
\* the entry [i, j, k] is 0 whenever rho[j, k] = 0.
C7_NonNegativeZeroAtRhoZero ==
  zpc = "done" =>
    /\ DOMAIN posterior_z = 1..zin.N
    /\ \A ii \in 1..zin.N :
         /\ DOMAIN posterior_z[ii] = 1..zin.M
         /\ \A jj \in 1..zin.M :
              /\ DOMAIN posterior_z[ii][jj] = 1..zin.D
              /\ \A kk \in 1..zin.D :
                   /\ posterior_z[ii][jj][kk] >= 0
                   /\ zin.rho[jj][kk] = 0 => posterior_z[ii][jj][kk] = 0

C7_Witness ==
  /\ zpc = "done" /\ zin.M = 2
  /\ zin.rho[1][1] = 0 /\ posterior_z[1][1][1] = 0 /\ posterior_z[1][1][2] > 0
  /\ Z_ij_posteriors[1][1] > 0

--------------------------------------------------------------------------
(* integral_approx (utils.py 71-90, 290-316).                              *)

\* largest `size` tried
MaxSize == 2

\* Asymmetric_Gassian_Distribution_pdf: for every observation of the column
\* x_k, the relevant branch weighted by rho plus the irrelevant branch
\* weighted by 1 - rho (rho in quarters)
Asymmetric_Gassian_Distribution_pdf(x_k, mu_jk, s_ljk, s_rjk, mu_jk_irr, s_ljk_irr, s_rjk_irr, rho) ==
  [o \in 1..Len(x_k) |->
     (IF x_k[o] < mu_jk
      THEN (((TimesRho(rho, Sqrt2OverPi) * 2) \div (InvSqrtHalves(s_ljk) + InvSqrtHalves(s_rjk)))
            * exp_neg_half(s_ljk * (x_k[o] - mu_jk) * (x_k[o] - mu_jk))) \div 1000
      ELSE (((TimesRho(rho, Sqrt2OverPi) * 2) \div (InvSqrtHalves(s_ljk) + InvSqrtHalves(s_rjk)))
            * exp_neg_half(s_rjk * (x_k[o] - mu_jk) * (x_k[o] - mu_jk))) \div 1000)
     +
     (IF x_k[o] < mu_jk_irr
      THEN (((TimesOneMinusRho(rho, Sqrt2OverPi) * 2)
               \div (InvSqrtHalves(s_ljk_irr) + InvSqrtHalves(s_rjk_irr)))
            * exp_neg_half(s_ljk_irr * (x_k[o] - mu_jk_irr) * (x_k[o] - mu_jk_irr))) \div 1000
      ELSE (((TimesOneMinusRho(rho, Sqrt2OverPi) * 2)
               \div (InvSqrtHalves(s_ljk_irr) + InvSqrtHalves(s_rjk_irr)))
            * exp_neg_half(s_rjk_irr * (x_k[o] - mu_jk_irr) * (x_k[o] - mu_jk_irr))) \div 1000)]

\* X[:, k]
Column(X, k) == [o \in 1..Len(X) |-> X[o][k]]

\* the loop `for k in range(D)` over the first m features: ini starts as
\* np.ones and is multiplied by each feature's density vector; d[k] holds the
\* draws mu[k], s_l[k], s_r[k], mu_irr[k], s_l_irr[k], s_r_irr[k], rho[k]
RECURSIVE ini_after(_, _, _)
ini_after(m, X, d) ==
  IF m = 0 THEN [o \in 1..Len(X) |-> 1000]
  ELSE LET temp_para == Asymmetric_Gassian_Distribution_pdf(
                          Column(X, m), d[m].mu, d[m].s_l, d[m].s_r,
                          d[m].mu_irr, d[m].s_l_irr, d[m].s_r_irr, d[m].rho)
       IN [o \in 1..Len(X) |-> (ini_after(m - 1, X, d)[o] * temp_para[o]) \div 1000]

\* (mutant) `temp = ini`
accumulate_overwrite(t, ini) == ini

\* `temp += ini`
accumulate(t, ini) == [o \in 1..Len(t) |-> t[o] + ini[o]]

\* `temp/float(size)`
average(t, size) == [o \in 1..Len(t) |-> t[o] \div size]

\* what the prior draws of one feature can be
FeatureDraws == {F0, F1, F2}

GInit ==
  /\ \E X \in ZData, size \in 1..MaxSize :
       /\ gin = [X |-> X, N |-> Len(X), D |-> Len(X[1]), size |-> size]
       /\ temp = [o \in 1..Len(X) |-> 0]
       /\ gret = [o \in 1..Len(X) |-> 0]
  /\ gi = 0
  /\ draws = <<>>
  /\ gpc = "loop"

\* one pass of `while i < size`
GIter ==
  /\ gpc = "loop"
  /\ gi < gin.size
  /\ \E d \in [1..gin.D -> FeatureDraws] :
       /\ draws' = Append(draws, d)
       /\ temp' = accumulate(temp, ini_after(gin.D, gin.X, d))
  /\ gi' = gi + 1
  /\ UNCHANGED <<gin, gpc, gret>>
  /\ UNCHANGED <<mhvars, indvars, zvars>>

\* `return temp/float(size)`
GReturn ==
  /\ gpc = "loop"
  /\ gi >= gin.size
  /\ gret' = average(temp, gin.size)
  /\ gpc' = "done"
  /\ UNCHANGED <<gin, temp, gi, draws>>
  /\ UNCHANGED <<mhvars, indvars, zvars>>

GNext == GIter \/ GReturn

\* the product over all features of the batch density, for observation o and
\* the draw d
RECURSIVE DrawProduct(_, _, _, _)
DrawProduct(m, X, o, d) ==
  IF m = 0 THEN 1000
  ELSE (DrawProduct(m - 1, X, o, d)
        * Asymmetric_Gassian_Distribution_pdf(
            Column(X, m), d[m].mu, d[m].s_l, d[m].s_r,
            d[m].mu_irr, d[m].s_l_irr, d[m].s_r_irr, d[m].rho)[o]) \div 1000

RECURSIVE SumOfProducts(_, _, _, _)
SumOfProducts(q, X, o, ds) ==
  IF q = 0 THEN 0 ELSE SumOfProducts(q - 1, X, o, ds) + DrawProduct(Len(X[1]), X, o, ds[q])

\* C8: the call makes exactly `size` prior draws and returns, per observation,
\* the sum over the draws of the product over all D features of the batch
\* density, divided by size; with size = 1 the result is the single draw's
\* product.
C8_AverageOfProducts ==
  gpc = "done" =>
    /\ Len(draws) = gin.size
    /\ \A o \in 1..gin.N :
         /\ gret[o] = SumOfProducts(gin.size, gin.X, o, draws) \div gin.size
         /\ gin.size = 1 => gret[o] = DrawProduct(gin.D, gin.X, o, draws[1])

C8_Witness ==
  /\ gpc = "done" /\ gin.size = 2 /\ gin.N = 2
  /\ draws[1] # draws[2] /\ gret[1] > 0 /\ gret[1] # gret[2]
  /\ DrawProduct(gin.D, gin.X, 1, draws[1]) # DrawProduct(gin.D, gin.X, 1, draws[2])

--------------------------------------------------------------------------
(* The specifications: one per function, the other functions' state idle.  *)

MHIdle ==
  /\ kind = "none" /\ arg = MHArg(0, 0, 0, NoData, 0, 0, <<>>)
  /\ x = 0 /\ vec = <<0>> /\ i = 0 /\ prop = 0 /\ cand = 0
  /\ alpha = Unset /\ u = Unset /\ last = "none" /\ nu = 0 /\ pc = "idle" /\ ret = 0

IndIdle ==
  pvec = <<>> /\ res = <<>> /\ j = 0 /\ R = 0 /\ fb = FALSE /\ ipc = "idle"

ZIdle ==
  /\ zin = <<>> /\ Z_ij_posteriors = <<>> /\ posterior_z = <<>>
  /\ zi = 0 /\ zj = 0 /\ zk = 0 /\ zpc = "idle"

GIdle ==
  gin = <<>> /\ temp = <<>> /\ gi = 0 /\ draws = <<>> /\ gpc = "idle" /\ gret = <<>>

InitMH == MHInit /\ IndIdle /\ ZIdle /\ GIdle
SpecMH == InitMH /\ [][MHNext]_allvars

InitInd == IndInit /\ MHIdle /\ ZIdle /\ GIdle
SpecInd == InitInd /\ [][IndNext]_allvars

InitZ == ZInit /\ MHIdle /\ IndIdle /\ GIdle
SpecZ == InitZ /\ [][ZNext]_allvars

InitInt == GInit /\ MHIdle /\ IndIdle /\ ZIdle
SpecInt == InitInt /\ [][GNext]_allvars

==========================================================================
